---- MODULE Spec2Model ----
(***************************************************************************)
(* AstrBook platform adapter: the bounded, persisted forum memory          *)
(* (adapter/forum_memory.py) and the connection manager, heartbeat and     *)
(* browse scheduler of the adapter (adapter/astrbook_adapter.py).          *)
(*                                                                         *)
(* The specifications share the variables:                                 *)
(*   MemSpec  the memory store driven directly through its public methods  *)
(*            (add_memory, clear) and re-constructed from the file;        *)
(*   Spec     the adapter: _run, _ws_loop, _ws_connect, _heartbeat_loop,   *)
(*            the frame handlers, _auto_browse_loop and terminate, one     *)
(*            action per stretch of code between two suspension points.    *)
(*   FairSpec the adapter while terminate is not called, with weak         *)
(*            fairness of the steps the event loop itself schedules.       *)
(*   QuerySpec the memory store filled and read through its query methods. *)
(***************************************************************************)
EXTENDS Integers, Sequences, FiniteSets, TLC

VARIABLES
    \* ---- ForumMemory
    max_items,      \* self._max_items
    memories,       \* self._memories, oldest first
    disk,           \* the file at self._storage_path
    clock,          \* wall clock, one tick per MemoryItem constructed
    loaded,         \* history: the log as it was right after construction
    added,          \* history: the items appended since construction / clear
    raised,         \* an exception left the last call made on the store
    \* ---- adapter configuration
    token,          \* self.token
    auto_browse,    \* self.auto_browse
    \* ---- adapter tasks
    runPc,          \* position of _run
    wsPc,           \* position of the _ws_loop task
    wsCancel,       \* task.cancel() requested on the _ws_loop task, not yet delivered
    reconnect_delay,\* the local reconnect_delay of _ws_loop
    ws,             \* self._ws: "none", "open" or "closed"
    ws_session,     \* self._ws_session: "none", "open" or "closed"
    leaked,         \* unclosed ClientSessions no attribute refers to any more
    ws_connected,   \* self._ws_connected
    hbPc,           \* position of the task held by heartbeat_task
    staleHb,        \* live heartbeat tasks whose handle was overwritten
    browsePc,       \* position of the _auto_browse_loop task
    browseCancel,   \* task.cancel() requested on the browse task, not yet delivered
    termPc,         \* position of terminate
    queue,          \* the host's event queue (commit_event)
    bot_user_id,    \* self.bot_user_id
    \* ---- history of the connection loop
    wait,           \* the argument of the asyncio.sleep _ws_loop is in (0: none yet)
    streak,         \* waits since the loop started or the delay was last reset
    reached,        \* the attempt that just ended had reached Connected
    hbFailed,       \* the heartbeat of the current connection ended on a failed ping
    browseWait,     \* the argument of the asyncio.sleep the browse task is in
    browseTick,     \* flips at every browse cycle
    browseFailed,   \* the last browse cycle raised
    termEarly,      \* terminate was called before _run had run
    \* ---- the last read made on the store
    query,          \* the method called and its arguments
    result          \* what it returned

memVars == <<max_items, memories, disk, clock, loaded, added, raised>>
cfgVars == <<token, auto_browse>>
qVars == <<query, result>>
wsVars == <<wsPc, wsCancel, reconnect_delay, ws, ws_session, leaked, ws_connected,
            wait, streak, reached>>
hbVars == <<hbPc, staleHb, hbFailed>>
browseVars == <<browsePc, browseCancel, browseWait, browseTick, browseFailed>>
vars == <<max_items, memories, disk, clock, loaded, added, raised, token,
          auto_browse,
          runPc, wsPc, wsCancel, reconnect_delay, ws, ws_session, leaked,
          ws_connected, hbPc, staleHb, browsePc, browseCancel, termPc, queue,
          bot_user_id, wait, streak, reached, hbFailed, browseWait,
          browseTick, browseFailed, termEarly, query, result>>

(***************************************************************************)
(* Bounds of the model                                                     *)
(***************************************************************************)
MaxItemsCfg == 2        \* max_items is drawn from 0..MaxItemsCfg
MaxAdds == 3            \* MemoryItems constructed in one behaviour of MemSpec
MaxNotes == 1           \* MemoryItems constructed by frame handlers in one behaviour
MaxQueue == 1           \* envelopes waiting in the host queue
MaxLeak == 1            \* leaked sessions counted (the counter saturates)
MaxStreak == 6          \* waits counted in a streak (the counter saturates)
MaxQueryAdds == 7       \* MemoryItems constructed in one behaviour of QuerySpec
MaxLimit == 3           \* the limits passed to get_memories and get_summary

Min(a, b) == IF a < b THEN a ELSE b
Max(a, b) == IF a > b THEN a ELSE b

RECURSIVE Pow2(_)
Pow2(n) == IF n <= 0 THEN 1 ELSE 2 * Pow2(n - 1)

(***************************************************************************)
(* ForumMemory                                                             *)
(***************************************************************************)
\* Python values as metadata holds them: a key is a str or an int (text is
\* its str()), a value an int, a str, a tuple or a list of ints.
StrKey(s) == [type |-> "str", text |-> s]
IntKey(s) == [type |-> "int", text |-> s]
IntVal(n) == [type |-> "int", items |-> <<n>>, text |-> ""]
StrVal(s) == [type |-> "str", items |-> <<>>, text |-> s]
TupleVal(ns) == [type |-> "tuple", items |-> ns, text |-> ""]
ListVal(ns) == [type |-> "list", items |-> ns, text |-> ""]

\* A dict is the sequence of its <<key, value>> pairs in insertion order,
\* no key twice; {} is the empty dict.
EmptyDict == <<>>
ThreadMeta(tid) == << <<StrKey("thread_id"), IntVal(tid)>> >>

\* d[key] = value: a key already present keeps its place and takes the value
DictSet(d, key, value) ==
    IF \E i \in DOMAIN d : d[i][1] = key
    THEN [i \in DOMAIN d |-> IF d[i][1] = key THEN <<key, value>> ELSE d[i]]
    ELSE Append(d, <<key, value>>)

\* dict.items() as a set
DictItems(d) == {d[i] : i \in DOMAIN d}
\* dict.__eq__: the same keys with the same values, in whatever order
DictEq(a, b) == DictItems(a) = DictItems(b)

\* datetime.now(): seconds from the clock, microseconds from the input.
Usecs == {0, 7}
Timestamp(sec, us) == [sec |-> sec, usec |-> us]

\* datetime.isoformat(): the microseconds are written only when non-zero.
isoformat(t) == IF t.usec = 0 THEN <<t.sec>> ELSE <<t.sec, t.usec>>
\* datetime.fromisoformat()
fromisoformat(s) == IF Len(s) = 1 THEN Timestamp(s[1], 0) ELSE Timestamp(s[1], s[2])

MemoryItem(memory_type, content, ts, metadata) ==
    [memory_type |-> memory_type, content |-> content,
     timestamp |-> ts, metadata |-> metadata]

\* MemoryItem.__eq__ as the dataclass generates it: field by field
ItemEq(m, n) ==
    /\ m.memory_type = n.memory_type
    /\ m.content = n.content
    /\ m.timestamp = n.timestamp
    /\ DictEq(m.metadata, n.metadata)
\* list.__eq__ on two logs
LogEq(a, b) == Len(a) = Len(b) /\ \A i \in DOMAIN a : ItemEq(a[i], b[i])

to_dict(m) ==
    [memory_type |-> m.memory_type, content |-> m.content,
     timestamp |-> isoformat(m.timestamp), metadata |-> m.metadata]

from_dict(d) ==
    MemoryItem(d.memory_type, d.content, fromisoformat(d.timestamp), d.metadata)

\* json.dump, line 226, on the metadata: a key is written as a JSON string
\* (an int key as its digits), a tuple and a list both as an array.
JsonValue(v) ==
    CASE v.type \in {"tuple", "list"} -> [json |-> "array", items |-> v.items, text |-> ""]
      [] v.type = "int" -> [json |-> "number", items |-> v.items, text |-> ""]
      [] OTHER -> [json |-> "string", items |-> <<>>, text |-> v.text]
\* An object is written member by member in the order of the dict: two keys
\* with the same str() give two members of the same name.
JsonObject(d) == [i \in DOMAIN d |-> <<d[i][1].text, JsonValue(d[i][2])>>]
\* json.dump of one record of to_dict
json_dump(d) ==
    [memory_type |-> d.memory_type, content |-> d.content,
     timestamp |-> d.timestamp, metadata |-> JsonObject(d.metadata)]

\* json.load, line 214: an object gives a dict with str keys, an array a
\* list, a number an int. The members of an object are stored one after the
\* other: of two members of the same name the later value is kept.
PyValue(j) ==
    CASE j.json = "array" -> ListVal(j.items)
      [] j.json = "number" -> IntVal(j.items[1])
      [] OTHER -> StrVal(j.text)
RECURSIVE PyDict(_)
PyDict(o) ==
    IF o = <<>> THEN EmptyDict
    ELSE DictSet(PyDict(SubSeq(o, 1, Len(o) - 1)),
                 StrKey(o[Len(o)][1]), PyValue(o[Len(o)][2]))
json_load(j) ==
    [memory_type |-> j.memory_type, content |-> j.content,
     timestamp |-> j.timestamp, metadata |-> PyDict(j.metadata)]

\* Python's s[-n:]
PySuffix(s, n) ==
    LET start == IF n > 0 THEN Max(Len(s) - n, 0) ELSE Min(0 - n, Len(s))
    IN  SubSeq(s, start + 1, Len(s))
\* Python's s[:n]
PyPrefix(s, n) ==
    LET stop == IF n >= 0 THEN Min(n, Len(s)) ELSE Max(Len(s) + n, 0)
    IN  SubSeq(s, 1, stop)

TrimKeepsOldest(log, limit) ==
    IF Len(log) > limit THEN PyPrefix(log, limit) ELSE log

\* add_memory, lines 106-108: trim if the log exceeds the limit
Trim(log, limit) ==
    IF Len(log) > limit THEN PySuffix(log, limit) ELSE log

\* The file: absent, or present and either a readable JSON array or not.
AbsentFile == [exists |-> FALSE, valid |-> FALSE, data |-> <<>>]
\* _save, lines 224-226: the JSON array of the records of to_dict
WrittenFile(log) ==
    [exists |-> TRUE, valid |-> TRUE,
     data |-> [i \in 1..Len(log) |-> json_dump(to_dict(log[i]))]]
BrokenFile == [exists |-> TRUE, valid |-> FALSE, data |-> <<>>]

\* _save: "ok" the file is rewritten; "open_fail" open() raises and the file
\* is untouched; "write_fail" open(path, "w") truncated the file and
\* json.dump raised part-way. The exception is logged, never raised.
SaveOutcomes == {"ok", "open_fail", "write_fail"}
Saved(file, log, outcome) ==
    CASE outcome = "ok" -> WrittenFile(log)
      [] outcome = "open_fail" -> file
      [] OTHER -> BrokenFile

\* _load: the log a new ForumMemory holds after reading the file
Loaded(file) ==
    IF ~file.exists THEN <<>>
    ELSE IF ~file.valid THEN <<>>
    ELSE [i \in 1..Len(file.data) |-> from_dict(json_load(file.data[i]))]

\* What reading the file does at construction
LoadOutcome(file) == IF file.exists /\ ~file.valid THEN "read_fail" ELSE "ok"

\* _save, lines 227-228, and _load, lines 217-219: `except Exception` logs
\* the failure; nothing is raised to the caller.
Propagates(outcome) == FALSE

\* Inputs of add_memory whose metadata is made of str keys and int values
NativeItemInputs ==
    { <<"mentioned", "c", ThreadMeta(1)>>,
      <<"diary", "d", EmptyDict>> }

\* The inputs of add_memory drawn on: (memory_type, content, metadata). The
\* metadata is any dict: {"tags": (1, 2), "7": 1, 7: 0} is among them.
ItemInputs ==
    NativeItemInputs
    \cup { <<"diary", "t", << <<StrKey("tags"), TupleVal(<<1, 2>>)>>,
                               <<StrKey("7"), IntVal(1)>>,
                               <<IntKey("7"), IntVal(0)>> >> >> }

\* The log after add_memory(memory_type, content, metadata) at time ts
Appended(log, limit, memory_type, content, ts, metadata) ==
    Trim(Append(log, MemoryItem(memory_type, content, ts, metadata)), limit)

\* ForumMemory.add_memory. The clock supplies datetime.now() (us its
\* microseconds) and outcome is what the file system does to _save.
add_memory(memory_type, content, metadata, us, outcome) ==
    /\ LET ts == Timestamp(clock + 1, us)
           new == Appended(memories, max_items, memory_type, content, ts, metadata)
       IN  /\ memories' = new
           /\ disk' = Saved(disk, new, outcome)
           /\ added' = Append(added, MemoryItem(memory_type, content, ts, metadata))
    /\ clock' = clock + 1
    /\ raised' = Propagates(outcome)
    /\ UNCHANGED <<max_items, loaded>>

\* ForumMemory.clear (the history of appended items restarts)
clear(outcome) ==
    /\ memories' = <<>>
    /\ disk' = Saved(disk, <<>>, outcome)
    /\ added' = <<>>
    /\ raised' = Propagates(outcome)
    /\ UNCHANGED <<max_items, clock, loaded>>

\* os.makedirs(dirname, exist_ok=True), line 81: it can fail only when the
\* directory is not there, and then the file is not there either.
MkdirOutcomes(file) == IF file.exists THEN {"ok"} ELSE {"ok", "mkdir_fail"}

\* ForumMemory.__init__: a new store over the same file. Line 81 stands
\* outside any try: when it raises the constructor raises and there is no
\* new store, the one there was is as it was.
construct(limit, mkdir) ==
    IF mkdir = "mkdir_fail"
    THEN /\ raised' = TRUE
         /\ UNCHANGED <<max_items, memories, disk, clock, loaded, added>>
    ELSE /\ max_items' = limit
         /\ memories' = Loaded(disk)
         /\ loaded' = Loaded(disk)
         /\ added' = <<>>
         /\ raised' = Propagates(LoadOutcome(disk))
         /\ UNCHANGED <<disk, clock>>

(***************************************************************************)
(* ForumMemory: the reads                                                  *)
(***************************************************************************)
\* An optional argument is <<>> (None) or <<value>>.
NoneArg == <<>>

\* get_memories, line 131: `if memory_type`
KindGiven(kind) == kind # NoneArg /\ kind[1] # ""
\* get_memories, line 137: `if limit`
LimitGiven(limit) == limit # NoneArg /\ limit[1] # 0

\* Python's s[::-1]
Reversed(s) == [i \in 1..Len(s) |-> s[Len(s) + 1 - i]]

\* The items of a log of one kind, in the order of the log
OfKind(log, kind) == SelectSeq(log, LAMBDA m : m.memory_type = kind)

\* ForumMemory.get_memories(memory_type, limit)
get_memories(log, kind, limit) ==
    LET items == IF KindGiven(kind) THEN OfKind(log, kind[1]) ELSE log
        newest == Reversed(items)
    IN  IF LimitGiven(limit) THEN PyPrefix(newest, limit[1]) ELSE newest

\* _get_type_emoji, lines 194-204
TypeEmoji(memory_type) ==
    CASE memory_type = "browsed" -> "eyes"
      [] memory_type = "mentioned" -> "loudspeaker"
      [] memory_type = "replied" -> "speech"
      [] memory_type = "new_thread" -> "memo"
      [] memory_type = "created" -> "writing"
      [] memory_type = "diary" -> "notebook"
      [] OTHER -> "pin"

\* timestamp.strftime("%m-%d %H:%M"): the minute, the seconds are dropped
TimeStr(t) == t.sec \div 60

\* A rendered text is the sequence of its lines.
SummaryLine(m) ==
    [emoji |-> TypeEmoji(m.memory_type), time |-> TimeStr(m.timestamp),
     content |-> m.content]
ContextLine(m) == [time |-> TimeStr(m.timestamp), content |-> m.content]
NoActivity == [message |-> "no_activity"]
SummaryHeader == [message |-> "activity"]
NoThreadActivity(thread_id) == [message |-> "no_thread_activity", thread_id |-> thread_id]
ContextHeader(thread_id) == [message |-> "thread_activity", thread_id |-> thread_id]

\* ForumMemory.get_summary(limit)
get_summary(log, limit) ==
    LET items == get_memories(log, NoneArg, <<limit>>)
    IN  IF items = <<>> THEN <<NoActivity>>
        ELSE <<SummaryHeader>> \o [i \in 1..Len(items) |-> SummaryLine(items[i])]

\* dict.get(key): <<>> (None) when the key is absent
DictGet(d, key) ==
    IF \E i \in DOMAIN d : d[i][1] = key
    THEN <<d[CHOOSE i \in DOMAIN d : d[i][1] = key][2]>>
    ELSE NoneArg

\* The items of a log that carry a thread id, in the order of the log
OfThread(log, thread_id) ==
    SelectSeq(log, LAMBDA m : DictGet(m.metadata, StrKey("thread_id")) = <<IntVal(thread_id)>>)

ContextLimit == 5
ContextItemsOldest(items) == PyPrefix(items, ContextLimit)
\* get_context_for_thread, line 182: items[-5:]
ContextItems(items) == PySuffix(items, ContextLimit)

\* ForumMemory.get_context_for_thread(thread_id)
get_context_for_thread(log, thread_id) ==
    LET items == OfThread(log, thread_id)
        last == ContextItems(items)
    IN  IF items = <<>> THEN <<NoThreadActivity(thread_id)>>
        ELSE <<ContextHeader(thread_id)>> \o [i \in 1..Len(last) |-> ContextLine(last[i])]

\* No read made yet
NoQuery == [op |-> "none", kind |-> NoneArg, limit |-> NoneArg, thread_id |-> 0]

(***************************************************************************)
(* AstrBookAdapter: constants and helpers                                  *)
(***************************************************************************)
self_reconnect_delay == 5
self_max_reconnect_delay == 60
SettleDelay == 60
browse_interval == 3600

Tokens == {"", "tok"}
ThreadIds == {1}

\* _run, line 112: `if not self.token`
DisabledAlways(tok) == FALSE
Disabled(tok) == tok = ""

BrowseEnabledAlways(flag) == TRUE
\* _run, line 121: `if self.auto_browse`
BrowseEnabled(flag) == flag

DelayAddsFive(d) == Min(d + 5, self_max_reconnect_delay)
\* _ws_loop, line 163
NextDelay(d) == Min(d * 2, self_max_reconnect_delay)

\* _ws_loop, lines 156-159: what the handlers of the loop catch.
\* CancelledError is a BaseException and is caught by neither.
Exceptions == {"ClientError", "Exception"}
CatchesClientErrorOnly(exc) == exc = "ClientError"
LoopCatches(exc) == exc \in {"ClientError", "Exception"}

\* _ws_loop, line 155: the delay after _ws_connect returned normally
DelayKept(d) == d
DelayAfterReturn(d) == self_reconnect_delay

\* Task states in which the task is not done
WsLive == {"created", "connecting", "receiving", "closing", "sleeping"}
BrowseLive == {"created", "sleeping"}
HbLive == {"ready", "sleeping"}

\* task.cancel(): requested when the task is not done (terminate, lines 134-136)
NeverCancels(pc, live) == FALSE
CancelRequested(pc, live) == pc \in live

\* heartbeat_task.cancel() in the finally of _ws_connect, line 191. The
\* heartbeat is suspended at an await outside any handler that catches
\* CancelledError, so a cancelled heartbeat runs no further line of its loop.
HbNotCancelled(h) == h
HbAfterFinally(h) == IF h \in HbLive THEN "cancelled" ELSE h

\* aiohttp.ClientSession() assigned to self._ws_session, lines 169-170:
\* the session it replaces is not closed
LeakedAfterNew == IF ws_session = "open" THEN Min(leaked + 1, MaxLeak) ELSE leaked

\* Live heartbeat tasks
LiveHb == (IF hbPc \in HbLive THEN 1 ELSE 0) + staleHb

\* Inbound frames: a TEXT frame whose payload is JSON (valid) or not, its
\* "type", "thread_id" and "content" (a string, or null)
FrameTypes == {"connected", "pong", "reply", "sub_reply", "mention", "new_thread", "other"}
NotifyTypes == {"reply", "sub_reply", "mention"}
Frame(valid, type, tid, content) ==
    [valid |-> valid, type |-> type, thread_id |-> tid, content |-> content,
     user_id |-> 1]
Text == <<"h", "i">>
NullContent == <<"null">>
Frames ==
    {Frame(FALSE, "garbage", 1, Text)}
    \cup {Frame(TRUE, t, tid, Text) : t \in FrameTypes, tid \in ThreadIds}
    \cup {Frame(TRUE, "mention", 1, NullContent)}

\* json() raises on a payload that is not JSON (line 183); content[:50]
\* raises on a null content (lines 242, 252)
Raises(f) ==
    \/ ~f.valid
    \/ f.type \in NotifyTypes /\ f.content = NullContent

\* _handle_notification, lines 239-258, and _handle_new_thread, lines 302-310
MemoryTypeOf(f) ==
    CASE f.type = "mention" -> "mentioned"
      [] f.type \in {"reply", "sub_reply"} -> "replied"
      [] OTHER -> "new_thread"
ContentOf(f) ==
    [what |-> MemoryTypeOf(f), title |-> "t",
     text |-> IF f.type = "new_thread" THEN <<>> ELSE PyPrefix(f.content, 50)]
MetadataOf(f) ==
    << <<StrKey("thread_id"), IntVal(f.thread_id)>>,
       <<StrKey("thread_title"), StrVal("t")>>,
       IF f.type = "new_thread" THEN <<StrKey("author"), StrVal("u")>>
       ELSE <<StrKey("from_user"), StrVal("u")>> >>

\* The envelope of _handle_notification, lines 260-292
NotifyEnvelope(f) ==
    [session_id |-> <<"astrbook", f.thread_id, 0>>,
     thread_id |-> f.thread_id, is_wake |-> TRUE, is_at_or_wake_command |-> TRUE]
\* The envelope of _do_browse, lines 333-361
BrowseEnvelope ==
    [session_id |-> <<"astrbook_browse_system", 0, 0>>,
     thread_id |-> 0, is_wake |-> TRUE, is_at_or_wake_command |-> TRUE]

(***************************************************************************)
(* Initial state: the adapter constructed (__init__, lines 49-88), the     *)
(* store constructed over an absent file, nothing run yet.                 *)
(***************************************************************************)
InitWith(limits) ==
    /\ max_items \in limits
    /\ memories = <<>>
    /\ disk = AbsentFile
    /\ clock = 0
    /\ loaded = <<>>
    /\ added = <<>>
    /\ raised = FALSE
    /\ token \in Tokens
    /\ auto_browse \in BOOLEAN
    /\ runPc = "init"
    /\ wsPc = "none"
    /\ wsCancel = FALSE
    /\ reconnect_delay = self_reconnect_delay
    /\ ws = "none"
    /\ ws_session = "none"
    /\ leaked = 0
    /\ ws_connected = FALSE
    /\ hbPc = "none"
    /\ staleHb = 0
    /\ browsePc = "none"
    /\ browseCancel = FALSE
    /\ termPc = "idle"
    /\ queue = <<>>
    /\ bot_user_id = 0
    /\ wait = 0
    /\ streak = 0
    /\ reached = FALSE
    /\ hbFailed = FALSE
    /\ browseWait = 0
    /\ browseTick = FALSE
    /\ browseFailed = FALSE
    /\ termEarly = FALSE
    /\ query = NoQuery
    /\ result = <<>>

\* The adapter configured with max_memory_items = 1
Init == InitWith({1})

adapterVars == <<token, auto_browse, runPc, wsPc, wsCancel, reconnect_delay, ws,
                 ws_session, leaked, ws_connected, hbPc, staleHb, browsePc,
                 browseCancel, termPc, queue, bot_user_id, wait, streak, reached, hbFailed, browseWait, browseTick, browseFailed,
                 termEarly>>

(***************************************************************************)
(* MemSpec: the store used through its methods                             *)
(***************************************************************************)
AddMemoryWith(inp, us, outcome) ==
    /\ clock < MaxAdds
    /\ add_memory(inp[1], inp[2], inp[3], us, outcome)
    /\ UNCHANGED <<adapterVars, qVars>>

AddMemory ==
    \E inp \in ItemInputs, us \in Usecs, outcome \in SaveOutcomes :
        AddMemoryWith(inp, us, outcome)

ClearWith(outcome) ==
    /\ clear(outcome)
    /\ UNCHANGED <<adapterVars, qVars>>

Clear == \E outcome \in SaveOutcomes : ClearWith(outcome)

Construct ==
    \E limit \in 0..MaxItemsCfg, mkdir \in MkdirOutcomes(disk) :
        /\ construct(limit, mkdir)
        /\ UNCHANGED <<adapterVars, qVars>>

MemNext == AddMemory \/ Clear \/ Construct

\* The store of an adapter that is configured and never run
MemInit == InitWith(0..MaxItemsCfg) /\ token = "tok" /\ auto_browse

MemSpec == MemInit /\ [][MemNext]_vars

(***************************************************************************)
(* QuerySpec: a store with the default limit, filled by add_memory and     *)
(* read through get_memories, get_summary and get_context_for_thread       *)
(***************************************************************************)
DefaultMaxItems == 50
KindArgs == {NoneArg, <<"mentioned">>, <<"replied">>}
LimitArgs == {NoneArg} \cup {<<n>> : n \in 0..MaxLimit}
ThreadArgs == {1, 2}
\* (memory_type, text, metadata) of the items added: two threads and none
QueryItemInputs == NativeItemInputs \cup {<<"replied", "r", ThreadMeta(2)>>}

\* add_memory with a content of its own for every call; what was read
\* before is forgotten.
QueryAdd ==
    \E inp \in QueryItemInputs :
        /\ clock < MaxQueryAdds
        /\ add_memory(inp[1], <<inp[2], clock + 1>>, inp[3], 0, "ok")
        /\ query' = NoQuery
        /\ result' = <<>>
        /\ UNCHANGED adapterVars

\* The reads change nothing, so one read is made on each log: the next
\* step after a read is an add_memory.
GetMemories ==
    \E kind \in KindArgs, limit \in LimitArgs :
        /\ query = NoQuery
        /\ query' = [op |-> "get_memories", kind |-> kind, limit |-> limit,
                     thread_id |-> 0]
        /\ result' = get_memories(memories, kind, limit)
        /\ UNCHANGED <<memVars, adapterVars>>

GetSummary ==
    \E n \in 0..MaxLimit :
        /\ query = NoQuery
        /\ query' = [op |-> "get_summary", kind |-> NoneArg, limit |-> <<n>>,
                     thread_id |-> 0]
        /\ result' = get_summary(memories, n)
        /\ UNCHANGED <<memVars, adapterVars>>

GetContext ==
    \E thread_id \in ThreadArgs :
        /\ query = NoQuery
        /\ query' = [op |-> "get_context_for_thread", kind |-> NoneArg,
                     limit |-> NoneArg, thread_id |-> thread_id]
        /\ result' = get_context_for_thread(memories, thread_id)
        /\ UNCHANGED <<memVars, adapterVars>>

QueryNext == QueryAdd \/ GetMemories \/ GetSummary \/ GetContext

QueryInit == InitWith({DefaultMaxItems}) /\ token = "tok" /\ auto_browse

QuerySpec == QueryInit /\ [][QueryNext]_vars

(***************************************************************************)
(* _run, lines 110-128                                                     *)
(***************************************************************************)
Run ==
    /\ runPc = "init"
    /\ IF Disabled(token)
       THEN /\ runPc' = "disabled"
            /\ UNCHANGED <<wsPc, browsePc>>
       ELSE /\ runPc' = "running"
            /\ wsPc' = "created"
            /\ browsePc' = IF BrowseEnabled(auto_browse) THEN "created" ELSE "none"
    /\ UNCHANGED <<memVars, cfgVars, qVars, termEarly, wsCancel, reconnect_delay, ws, ws_session,
                   leaked, ws_connected, hbVars, browseCancel, browseWait, browseTick,
                   browseFailed, termPc, queue, bot_user_id, wait, streak, reached>>

(***************************************************************************)
(* _ws_loop, lines 148-163, and _ws_connect, lines 165-192                 *)
(***************************************************************************)
\* Lines 156-162 after an exception exc left _ws_connect: caught and the loop
\* sleeps, or not caught and the task ends.
AfterException(exc) ==
    IF LoopCatches(exc)
    THEN /\ wsPc' = "sleeping"
         /\ wait' = reconnect_delay
         /\ streak' = Min(streak + 1, MaxStreak)
         /\ UNCHANGED reconnect_delay
    ELSE /\ wsPc' = "failed"
         /\ UNCHANGED <<wait, streak, reconnect_delay>>

\* Lines 155 and 161-162 after _ws_connect returned
AfterReturn ==
    /\ reconnect_delay' = DelayAfterReturn(reconnect_delay)
    /\ wait' = DelayAfterReturn(reconnect_delay)
    /\ streak' = 1
    /\ wsPc' = "sleeping"

\* Lines 190-192 and the exit of `async with`: the heartbeat is cancelled,
\* the flag cleared, the websocket closed.
ConnectionTornDown ==
    /\ hbPc' = HbAfterFinally(hbPc)
    /\ ws_connected' = FALSE
    /\ ws' = "closed"

\* The task starts: line 150, then the first _ws_connect up to its await.
WsStart ==
    /\ wsPc = "created"
    /\ ~wsCancel
    /\ reconnect_delay' = self_reconnect_delay
    /\ ws_session' = "open"
    /\ leaked' = LeakedAfterNew
    /\ reached' = FALSE
    /\ wsPc' = "connecting"
    /\ UNCHANGED <<memVars, cfgVars, qVars, termEarly, runPc, wsCancel, ws, ws_connected, hbVars,
                   browseVars, termPc, queue, bot_user_id, wait, streak>>

\* session.ws_connect raises.
WsConnectFail ==
    \E exc \in Exceptions :
        /\ wsPc = "connecting"
        /\ ~wsCancel
        /\ AfterException(exc)
        /\ UNCHANGED <<memVars, cfgVars, qVars, termEarly, runPc, wsCancel, ws, ws_session, leaked,
                       ws_connected, hbVars, browseVars, termPc, queue, bot_user_id,
                       reached>>

\* session.ws_connect succeeds: lines 174-178.
WsConnectOk ==
    /\ wsPc = "connecting"
    /\ ~wsCancel
    /\ ws' = "open"
    /\ ws_connected' = TRUE
    /\ staleHb' = staleHb + (IF hbPc \in HbLive THEN 1 ELSE 0)
    /\ hbPc' = "ready"
    /\ hbFailed' = FALSE
    /\ reached' = TRUE
    /\ wsPc' = "receiving"
    /\ UNCHANGED <<memVars, cfgVars, qVars, termEarly, runPc, wsCancel, reconnect_delay, ws_session,
                   leaked, browseVars, termPc, queue, bot_user_id, wait, streak>>

NotifiesNewThread(f) == f.type \in NotifyTypes \cup {"new_thread"}
\* _handle_ws_message, line 219: the frames handed to _handle_notification
Notifies(f) == f.type \in NotifyTypes

\* _handle_ws_message, lines 203-222, on a frame that raises nothing.
Handled(f) ==
    IF f.type = "connected"
    THEN /\ bot_user_id' = f.user_id
         /\ UNCHANGED <<memVars, queue>>
    ELSE IF Notifies(f)
    THEN /\ Len(queue) < MaxQueue
         /\ clock < MaxNotes
         /\ \E us \in Usecs, outcome \in SaveOutcomes :
                add_memory(MemoryTypeOf(f), ContentOf(f), MetadataOf(f), us, outcome)
         /\ queue' = Append(queue, NotifyEnvelope(f))
         /\ UNCHANGED bot_user_id
    ELSE IF f.type = "new_thread"
    THEN /\ clock < MaxNotes
         /\ \E us \in Usecs, outcome \in SaveOutcomes :
                add_memory(MemoryTypeOf(f), ContentOf(f), MetadataOf(f), us, outcome)
         /\ UNCHANGED <<queue, bot_user_id>>
    ELSE UNCHANGED <<memVars, queue, bot_user_id>>

\* A TEXT frame f arrives: line 183. When its handling raises, the finally
\* runs and the exit of `async with` (line 173) awaits ws.close(): the task
\* is suspended there with the exception pending.
RecvFrame(f) ==
    /\ wsPc = "receiving"
    /\ ~wsCancel
    /\ IF Raises(f)
       THEN /\ ConnectionTornDown
            /\ wsPc' = "closing"
            /\ UNCHANGED <<memVars, queue, bot_user_id, reconnect_delay, wait,
                           streak>>
       ELSE /\ Handled(f)
            /\ UNCHANGED <<wsPc, reconnect_delay, ws, ws_connected, hbPc, wait,
                           streak>>
    /\ UNCHANGED <<cfgVars, qVars, termEarly, runPc, wsCancel, ws_session, leaked, staleHb,
                   hbFailed, browseVars, termPc, reached>>

RecvText == \E f \in Frames : RecvFrame(f)

\* ws.close() returns at the exit of `async with`: the exception of the
\* handler leaves _ws_connect and lines 158-162 run.
WsCloseReturns ==
    /\ wsPc = "closing"
    /\ ~wsCancel
    /\ AfterException("Exception")
    /\ UNCHANGED <<memVars, cfgVars, qVars, termEarly, runPc, wsCancel, ws, ws_session, leaked,
                   ws_connected, hbVars, browseVars, termPc, queue, bot_user_id,
                   reached>>

\* An ERROR or CLOSED message, or the end of the stream: lines 184-189.
\* The loop is left, _ws_connect returns.
RecvClose ==
    /\ wsPc = "receiving"
    /\ ~wsCancel
    /\ ConnectionTornDown
    /\ AfterReturn
    /\ UNCHANGED <<memVars, cfgVars, qVars, termEarly, runPc, wsCancel, ws_session, leaked, staleHb,
                   hbFailed, browseVars, termPc, queue, bot_user_id, reached>>

\* Receiving raises.
RecvRaise ==
    \E exc \in Exceptions :
        /\ wsPc = "receiving"
        /\ ~wsCancel
        /\ ConnectionTornDown
        /\ AfterException(exc)
        /\ UNCHANGED <<memVars, cfgVars, qVars, termEarly, runPc, wsCancel, ws_session, leaked,
                       staleHb, hbFailed, browseVars, termPc, queue, bot_user_id,
                       reached>>

\* asyncio.sleep(reconnect_delay) returns: line 163, then the next
\* _ws_connect up to its await.
WsWake ==
    /\ wsPc = "sleeping"
    /\ ~wsCancel
    /\ reconnect_delay' = NextDelay(reconnect_delay)
    /\ ws_session' = "open"
    /\ leaked' = LeakedAfterNew
    /\ reached' = FALSE
    /\ wsPc' = "connecting"
    /\ UNCHANGED <<memVars, cfgVars, qVars, termEarly, runPc, wsCancel, ws, ws_connected, hbVars,
                   browseVars, termPc, queue, bot_user_id, wait, streak>>

\* CancelledError is delivered at the await the task is suspended in; inside
\* the receive loop the finally and the exit of `async with` run.
WsCancelled ==
    /\ wsCancel
    /\ wsPc \in WsLive
    /\ wsCancel' = FALSE
    /\ wsPc' = "cancelled"
    /\ IF wsPc = "receiving"
       THEN ConnectionTornDown
       ELSE UNCHANGED <<hbPc, ws_connected, ws>>
    /\ UNCHANGED <<memVars, cfgVars, qVars, termEarly, runPc, reconnect_delay, ws_session, leaked,
                   staleHb, hbFailed, browseVars, termPc, queue, bot_user_id, wait,
                   streak, reached>>

(***************************************************************************)
(* _heartbeat_loop, lines 194-201                                          *)
(***************************************************************************)
\* The loop condition, line 196
HbCondition == ws_connected /\ ws = "open"

\* One turn of the loop: the condition, then the ping, which succeeds (the
\* task goes on to sleep 30) or raises (line 200-201: break).
HbPing ==
    \E ok \in BOOLEAN :
        /\ hbPc = "ready"
        /\ IF ~HbCondition
           THEN hbPc' = "done" /\ UNCHANGED hbFailed
           ELSE IF ok
                THEN hbPc' = "sleeping" /\ UNCHANGED hbFailed
                ELSE hbPc' = "done" /\ hbFailed' = TRUE
        /\ UNCHANGED <<memVars, cfgVars, qVars, termEarly, runPc, wsVars, staleHb, browseVars, termPc,
                       queue, bot_user_id>>

\* asyncio.sleep(30) returns.
HbWake ==
    /\ hbPc = "sleeping"
    /\ hbPc' = "ready"
    /\ UNCHANGED <<memVars, cfgVars, qVars, termEarly, runPc, wsVars, staleHb, hbFailed, browseVars,
                   termPc, queue, bot_user_id>>

(***************************************************************************)
(* _auto_browse_loop, lines 314-324, and _do_browse, lines 326-362         *)
(***************************************************************************)
\* The task starts: line 316.
BrowseStart ==
    /\ browsePc = "created"
    /\ ~browseCancel
    /\ browsePc' = "sleeping"
    /\ browseWait' = SettleDelay
    /\ UNCHANGED <<memVars, cfgVars, qVars, termEarly, runPc, wsVars, hbVars, browseCancel,
                   browseTick, browseFailed, termPc, queue, bot_user_id>>

\* What a browse cycle may raise, and what lines 321-322 catch
BrowseExceptions == {"Exception"}
BrowseCatchesNothing(exc) == FALSE
BrowseCatches(exc) == exc \in {"Exception"}

\* _do_browse, lines 326-362: the log after a cycle. Nothing in it calls
\* add_memory; the prompt asks the reader of the envelope to save a diary.
BrowseRecorded(log) == log

\* The sleep returns: one cycle (the envelope is committed, or the cycle
\* raises and lines 321-322 swallow it), then line 324.
BrowseCycle ==
    \E ok \in BOOLEAN, exc \in BrowseExceptions :
        /\ browsePc = "sleeping"
        /\ ~browseCancel
        /\ browseTick' = ~browseTick
        /\ browseFailed' = ~ok
        /\ IF ok
           THEN /\ Len(queue) < MaxQueue
                /\ queue' = Append(queue, BrowseEnvelope)
                /\ memories' = BrowseRecorded(memories)
                /\ browsePc' = "sleeping"
                /\ browseWait' = browse_interval
           ELSE /\ UNCHANGED <<queue, memories>>
                /\ IF BrowseCatches(exc)
                   THEN browsePc' = "sleeping" /\ browseWait' = browse_interval
                   ELSE browsePc' = "failed" /\ UNCHANGED browseWait
        /\ UNCHANGED <<max_items, disk, clock, loaded, added, raised, cfgVars, qVars, termEarly, runPc, wsVars,
                       hbVars, browseCancel, termPc, bot_user_id>>

\* CancelledError is delivered at the sleep.
BrowseCancelled ==
    /\ browseCancel
    /\ browsePc \in BrowseLive
    /\ browseCancel' = FALSE
    /\ browsePc' = "cancelled"
    /\ UNCHANGED <<memVars, cfgVars, qVars, termEarly, runPc, wsVars, hbVars, browseWait, browseTick,
                   browseFailed, termPc, queue, bot_user_id>>

(***************************************************************************)
(* terminate, lines 130-144                                                *)
(***************************************************************************)
\* Lines 141-144 once the websocket is dealt with. The await of
\* self._ws_session.close() either suspends terminate or returns at once
\* with the session closed, as the connector has or has not something to
\* wait for.
TermAfterWs ==
    IF ws_session = "open"
    THEN \/ termPc' = "closing_session" /\ UNCHANGED <<ws_session, ws_connected>>
         \/ ws_session' = "closed" /\ termPc' = "done" /\ ws_connected' = FALSE
    ELSE termPc' = "done" /\ ws_connected' = FALSE /\ UNCHANGED ws_session

\* Lines 132-138: the tasks are cancelled, then the first await. Nothing
\* tests that the adapter has been run.
TermStart ==
    /\ termPc = "idle"
    /\ termEarly' = (runPc = "init")
    /\ wsCancel' = CancelRequested(wsPc, WsLive)
    /\ browseCancel' = CancelRequested(browsePc, BrowseLive)
    /\ IF ws = "open"
       THEN termPc' = "closing_ws" /\ UNCHANGED <<ws_session, ws_connected>>
       ELSE TermAfterWs
    /\ UNCHANGED <<memVars, cfgVars, qVars, runPc, wsPc, reconnect_delay, ws,
                   leaked, hbVars, browsePc, browseWait, browseTick,
                   browseFailed, queue, bot_user_id, wait, streak, reached>>

\* self._ws.close() returns: lines 139-141.
TermWsClosed ==
    /\ termPc = "closing_ws"
    /\ ws' = "closed"
    /\ TermAfterWs
    /\ UNCHANGED <<memVars, cfgVars, qVars, termEarly, runPc, wsPc, wsCancel, reconnect_delay,
                   leaked, hbVars, browseVars, queue, bot_user_id, wait,
                   streak, reached>>

\* self._ws_session.close() returns: lines 142-144.
TermSessionClosed ==
    /\ termPc = "closing_session"
    /\ ws_session' = "closed"
    /\ ws_connected' = FALSE
    /\ termPc' = "done"
    /\ UNCHANGED <<memVars, cfgVars, qVars, termEarly, runPc, wsPc, wsCancel, reconnect_delay, ws,
                   leaked, hbVars, browseVars, queue, bot_user_id, wait, streak,
                   reached>>

(***************************************************************************)
(* The host takes an envelope from its queue.                              *)
(***************************************************************************)
HostGet ==
    /\ queue # <<>>
    /\ queue' = Tail(queue)
    /\ UNCHANGED <<memVars, cfgVars, qVars, termEarly, runPc, wsVars, hbVars, browseVars, termPc,
                   bot_user_id>>

\* The steps of a running adapter
RunNext ==
    \/ Run
    \/ WsStart
    \/ WsConnectFail
    \/ WsConnectOk
    \/ RecvText
    \/ WsCloseReturns
    \/ RecvClose
    \/ RecvRaise
    \/ WsWake
    \/ HbPing
    \/ HbWake
    \/ BrowseStart
    \/ BrowseCycle
    \/ HostGet

\* The steps of terminate and of the cancellations it requests
TermNext ==
    \/ TermStart
    \/ TermWsClosed
    \/ TermSessionClosed
    \/ WsCancelled
    \/ BrowseCancelled

Next == RunNext \/ TermNext

Spec == Init /\ [][Next]_vars

\* The event loop runs every task that is ready: timers fire, a connection
\* attempt ends one way or the other and the host drains its queue. Frames
\* and server closes are the environment's and carry no fairness.
Fairness ==
    /\ WF_vars(Run)
    /\ WF_vars(WsStart)
    /\ WF_vars(WsConnectFail \/ WsConnectOk)
    /\ WF_vars(WsCloseReturns)
    /\ WF_vars(WsWake)
    /\ WF_vars(HbPing)
    /\ WF_vars(HbWake)
    /\ WF_vars(BrowseStart)
    /\ WF_vars(BrowseCycle)
    /\ WF_vars(HostGet)

\* The adapter for as long as the host does not call terminate
FairSpec == Init /\ [][RunNext]_vars /\ Fairness

(***************************************************************************)
(* Properties                                                              *)
(***************************************************************************)

\* C1 (MemSpec): on a store that started empty with max_items >= 1, once
\* more than max_items items were appended the log has exactly max_items
\* items and they are the most recently appended ones, in the order they
\* were appended.
C1_FifoEviction ==
    (max_items >= 1 /\ loaded = <<>> /\ Len(added) > max_items)
        => /\ Len(memories) = max_items
           /\ memories = SubSeq(added, Len(added) - max_items + 1, Len(added))

\* Three items appended to an empty store that keeps two.
C1_Witness ==
    /\ max_items = 2
    /\ loaded = <<>>
    /\ Len(added) = 3
    /\ memories = <<added[2], added[3]>>

\* C2 (MemSpec): the log never holds more than max_items items.
C2_LengthBound == Len(memories) <= max_items

\* C3 (Spec): the reconnect delay stays within [5, 60], and the k-th wait of
\* a streak of failures is 5 * 2^(k-1) capped at 60: 5, 10, 20, 40, 60, 60.
C3_BackoffSequence ==
    /\ reconnect_delay >= self_reconnect_delay
    /\ reconnect_delay <= self_max_reconnect_delay
    /\ wsPc = "sleeping" =>
           wait = Min(self_reconnect_delay * Pow2(streak - 1), self_max_reconnect_delay)

\* The sixth wait in a row, after six failed attempts and no connection.
C3_Witness ==
    /\ wsPc = "sleeping"
    /\ streak = 6
    /\ wait = 60
    /\ ~reached
    /\ ws = "none"

\* C4 (Spec): the wait that follows an attempt that reached Connected is the
\* initial delay, however the connection ended.
C4_ResetOnSuccess ==
    (wsPc = "sleeping" /\ reached) => wait = self_reconnect_delay

\* C5 (FairSpec): while terminate is not called the connection-loop task
\* never ends, and every failure or disconnection (the loop is closing the
\* websocket after a handler raised, or is in its wait) is followed by
\* another connection attempt.
C5_NeverGivesUp ==
    /\ [](runPc = "running" => wsPc \in WsLive)
    /\ (wsPc \in {"closing", "sleeping"} ~> wsPc = "connecting")

\* A new attempt is under way after a wait, on an adapter that had been
\* Connected (the server had announced the bot's identity).
C5_Witness ==
    /\ wsPc = "connecting"
    /\ bot_user_id # 0
    /\ wait > 0

\* C6 (FairSpec): a failed ping while Connected leads to the connection
\* being torn down.
C6_HeartbeatFailureDisconnects ==
    (ws_connected /\ hbFailed) ~> ~ws_connected

\* C7 (Spec): at most one heartbeat task is live, none is live outside the
\* receive loop of a connection, and the step that makes the state
\* Connected takes the number of live heartbeats from zero to one.
C7_NoStaleHeartbeat ==
    /\ [](LiveHb <= 1)
    /\ [](wsPc # "receiving" => LiveHb = 0)
    /\ [][(~ws_connected /\ ws_connected') => (LiveHb = 0 /\ LiveHb' = 1)]_vars

\* Connected after a wait of the loop, with exactly one heartbeat, on an
\* adapter the server has announced the bot's identity to.
C7_Witness ==
    /\ wsPc = "receiving"
    /\ wait > 0
    /\ bot_user_id # 0
    /\ hbPc \in HbLive
    /\ LiveHb = 1

\* terminate has been called, on an adapter that _run had started.
Terminating == termPc # "idle" /\ ~termEarly

\* terminate has returned, on an adapter that _run had started.
Terminated == termPc = "done" /\ ~termEarly

\* C8 (Spec): once terminate has been called on a started adapter no
\* connection attempt is started and no envelope is enqueued; once it has
\* returned the state is not Connected, the websocket and the session are
\* closed and no ping is sent; and once the cancellation reached the
\* connection loop no heartbeat is live.
C8_TerminateStopsAll ==
    /\ [][Terminating => ~(wsPc # "connecting" /\ wsPc' = "connecting")]_vars
    /\ [][Terminating => Len(queue') <= Len(queue)]_vars
    /\ [](Terminated => (~ws_connected /\ ws # "open" /\ ws_session # "open"))
    /\ [][Terminated => ~(hbPc = "ready" /\ hbPc' = "sleeping")]_vars
    /\ []((Terminating /\ ~wsCancel) => LiveHb = 0)

\* terminate returned after it was called on a Connected adapter whose
\* heartbeat and browse scheduler were running.
C8_Witness ==
    /\ Terminated
    /\ wsPc = "cancelled"
    /\ hbPc = "cancelled"
    /\ browsePc = "cancelled"
    /\ ws = "closed"

\* C9 (Spec): with an empty token nothing is ever started; with a token the
\* connection loop exists as soon as _run has run.
C9_TokenGate ==
    /\ token = "" =>
           /\ wsPc = "none" /\ browsePc = "none" /\ hbPc = "none"
           /\ ~ws_connected /\ ws = "none" /\ ws_session = "none"
           /\ queue = <<>>
    /\ (token # "" /\ runPc # "init") => wsPc # "none"

\* _run has returned on an adapter without a token.
C9_Witness ==
    /\ token = ""
    /\ runPc = "disabled"

\* Frames the protocol does not know: not JSON, or an unrecognized type.
ProtocolError(f) == ~f.valid \/ f.type = "other"

\* C10 (Spec): the step that receives a protocol-error frame leaves the
\* connection Connected, in its receive loop, with its heartbeat untouched.
C10_ProtocolErrorIgnored ==
    [][\A f \in Frames :
           (ProtocolError(f) /\ RecvFrame(f))
               => (ws_connected' /\ wsPc' = "receiving" /\ hbPc' = hbPc)]_vars

\* What one notification frame f leaves behind: one more MemoryItem of the
\* kind of f carrying its thread, one more envelope with both wake flags.
NotificationRecorded(f) ==
    /\ Len(added') = Len(added) + 1
    /\ added'[Len(added')].memory_type =
           (IF f.type = "mention" THEN "mentioned" ELSE "replied")
    /\ <<StrKey("thread_id"), IntVal(f.thread_id)>> \in DictItems(added'[Len(added')].metadata)
    /\ memories' # <<>>
    /\ memories'[Len(memories')] = added'[Len(added')]
    /\ Len(queue') = Len(queue) + 1
    /\ SubSeq(queue', 1, Len(queue)) = queue
    /\ queue'[Len(queue')].thread_id = f.thread_id
    /\ queue'[Len(queue')].is_wake
    /\ queue'[Len(queue')].is_at_or_wake_command

\* C11 (Spec): the step that receives a JSON frame of type reply, sub_reply
\* or mention appends exactly one MemoryItem ("mentioned" for a mention,
\* "replied" otherwise, its metadata carrying the thread) and enqueues
\* exactly one envelope with both wake flags set.
C11_NotificationRecorded ==
    [][\A f \in Frames :
           (f.valid /\ f.type \in NotifyTypes /\ RecvFrame(f))
               => NotificationRecorded(f)]_vars

\* The connection as the receive loop sees it
ConnectionKept ==
    /\ ws_connected' = ws_connected
    /\ ws' = ws
    /\ wsPc' = wsPc
    /\ hbPc' = hbPc

\* C12 (Spec): a frame that is not a notification never enqueues. The step
\* that receives a new_thread frame appends exactly one "new_thread" item and
\* leaves the queue alone; a pong or a frame of unrecognized type changes
\* neither the log, the file, the queue, the bot identity nor the
\* connection; a connected frame changes the bot identity only.
C12_OthersNeverEnqueue ==
    [][\A f \in Frames :
           (f.valid /\ RecvFrame(f)) =>
               /\ f.type = "new_thread" =>
                      /\ Len(added') = Len(added) + 1
                      /\ added'[Len(added')].memory_type = "new_thread"
                      /\ memories'[Len(memories')] = added'[Len(added')]
                      /\ queue' = queue
                      /\ bot_user_id' = bot_user_id
                      /\ ConnectionKept
               /\ f.type \in {"pong", "other"} =>
                      /\ memories' = memories /\ disk' = disk /\ added' = added
                      /\ queue' = queue
                      /\ bot_user_id' = bot_user_id
                      /\ ConnectionKept
               /\ f.type = "connected" =>
                      /\ memories' = memories /\ disk' = disk /\ added' = added
                      /\ queue' = queue
                      /\ bot_user_id' = f.user_id
                      /\ ConnectionKept]_vars

\* A new_thread frame has just been handled: remembered, nothing enqueued.
C12_Witness ==
    /\ wsPc = "receiving"
    /\ memories # <<>>
    /\ memories[Len(memories)].memory_type = "new_thread"
    /\ disk = WrittenFile(memories)
    /\ queue = <<>>

\* C13 (FairSpec): while terminate is not called the browse task never ends,
\* whatever its cycles raise; every cycle, failed or not, is followed by the
\* sleep of browse_interval; and with a token and auto_browse set cycles are
\* attempted for ever.
C13_BrowseFailureIsolated ==
    /\ []((runPc = "running" /\ auto_browse) => browsePc \in BrowseLive)
    /\ [][browseTick' # browseTick
              => (browsePc' = "sleeping" /\ browseWait' = browse_interval)]_vars
    /\ (token # "" /\ auto_browse) => ([]<>browseTick /\ []<>~browseTick)

\* The second cycle (or a later even one) raised and the task sleeps again.
C13_Witness ==
    /\ browseFailed
    /\ ~browseTick
    /\ browsePc = "sleeping"
    /\ browseWait = browse_interval

\* The browse envelopes waiting in a queue
BrowseEnvelopes(q) ==
    {i \in DOMAIN q : q[i].session_id[1] = "astrbook_browse_system"}

\* C14 (Spec): until the sleep of 60 has returned no cycle has run and no
\* browse envelope exists; a cycle starts from a sleep, of 60 the first time
\* and of browse_interval afterwards, emits at most one envelope (exactly one
\* when it does not raise: the fixed session id, both wake flags) and goes
\* into the sleep of browse_interval; browse envelopes come from cycles only;
\* with auto_browse off there is no browse task and no browse envelope.
C14_BrowseSchedule ==
    /\ [](browseWait # browse_interval
             => (~browseTick /\ ~browseFailed /\ BrowseEnvelopes(queue) = {}))
    /\ [](~auto_browse => (browsePc = "none" /\ BrowseEnvelopes(queue) = {}))
    /\ [][browseTick' # browseTick =>
              /\ auto_browse
              /\ browsePc = "sleeping"
              /\ browseWait = (IF browseWait' = browseWait
                               THEN browse_interval ELSE SettleDelay)
              /\ browsePc' = "sleeping"
              /\ browseWait' = browse_interval
              /\ IF browseFailed'
                 THEN queue' = queue
                 ELSE /\ Len(queue') = Len(queue) + 1
                      /\ SubSeq(queue', 1, Len(queue)) = queue
                      /\ queue'[Len(queue')].session_id = <<"astrbook_browse_system", 0, 0>>
                      /\ queue'[Len(queue')].is_wake
                      /\ queue'[Len(queue')].is_at_or_wake_command]_vars
    /\ [][Cardinality(BrowseEnvelopes(queue')) > Cardinality(BrowseEnvelopes(queue))
              => browseTick' # browseTick]_vars

\* The first cycle has just emitted its envelope.
C14_Witness ==
    /\ auto_browse
    /\ browseTick
    /\ ~browseFailed
    /\ browsePc = "sleeping"
    /\ browseWait = browse_interval
    /\ queue = <<BrowseEnvelope>>

\* A browse cycle that commits its envelope
BrowseEmits == browseTick' # browseTick /\ ~browseFailed'

\* C15 (Spec): the browse cycle that emits its envelope also records an
\* entry in the memory store.
C15_BrowseRecordsMemory ==
    [][BrowseEmits => Len(memories') = Len(memories) + 1]_vars

\* C16 (MemSpec): writing a log and reading it back gives the same items
\* (memory_type, content, timestamp, metadata) in the same order; a store
\* constructed over the file that holds the current log, with max_items no
\* smaller than its length, holds that very log.
C16_RoundTrip ==
    /\ [](LogEq(Loaded(WrittenFile(memories)), memories))
    /\ [][(Construct /\ disk = WrittenFile(memories) /\ max_items' >= Len(memories))
              => (LogEq(memories', memories) /\ LogEq(loaded', memories))]_vars

\* C17 (MemSpec): after an add_memory or a clear whose write succeeds the
\* file holds exactly the log as it is in memory after the eviction, and
\* reading it back gives that log; after such a clear both are empty.
C17_WriteThrough ==
    /\ [][(\E inp \in ItemInputs, us \in Usecs : AddMemoryWith(inp, us, "ok"))
              => (disk' = WrittenFile(memories') /\ LogEq(Loaded(disk'), memories'))]_vars
    /\ [][ClearWith("ok")
              => (memories' = <<>> /\ disk' = WrittenFile(<<>>)
                  /\ Loaded(disk') = <<>>)]_vars

\* C18 (MemSpec): no call on the store raises, the constructor included. An
\* add_memory whose write fails still leaves the new item last in the log, a
\* clear whose write fails still leaves the log empty, and a store
\* constructed over an unreadable or an absent file has an empty log.
C18_ErrorsContained ==
    /\ [](~raised)
    /\ [][\A outcome \in SaveOutcomes \ {"ok"} :
              /\ (\E inp \in ItemInputs, us \in Usecs : AddMemoryWith(inp, us, outcome))
                     => /\ memories' # <<>>
                        /\ Len(added') = Len(added) + 1
                        /\ memories'[Len(memories')] = added'[Len(added')]
              /\ ClearWith(outcome) => memories' = <<>>]_vars
    /\ [][(Construct /\ (~disk.exists \/ ~disk.valid)) => memories' = <<>>]_vars

\* The positions in the log of the items of a kind (of all items for None)
Matching(kind) ==
    {i \in DOMAIN memories : kind = NoneArg \/ memories[i].memory_type = kind[1]}

\* The position of the j-th newest item among the positions S
NthNewest(S, j) == CHOOSE i \in S : Cardinality({x \in S : x > i}) = j - 1

\* The item lines of a rendered summary
SummaryLines(text) == IF text = <<NoActivity>> THEN <<>> ELSE Tail(text)

\* C19 (QuerySpec): get_memories(kind, L) with a limit L >= 0 returns the
\* min(L, n) newest of the n items of that kind (of all items when no kind is
\* given), newest first; get_summary(L) renders exactly the min(L, n) newest
\* items of the log, one line each, newest first.
C19_NewestFirstAtMostL ==
    /\ (query.op = "get_memories" /\ query.limit # NoneArg) =>
           LET S == Matching(query.kind)
               k == Min(query.limit[1], Cardinality(S))
           IN  /\ Len(result) = k
               /\ \A j \in 1..k : result[j] = memories[NthNewest(S, j)]
    /\ query.op = "get_summary" =>
           LET S == Matching(NoneArg)
               k == Min(query.limit[1], Cardinality(S))
               lines == SummaryLines(result)
           IN  /\ Len(lines) = k
               /\ \A j \in 1..k : lines[j] = SummaryLine(memories[NthNewest(S, j)])

\* The positions in the log of the items whose metadata carries a thread id
ThreadPositions(thread_id) ==
    {i \in DOMAIN memories :
         <<StrKey("thread_id"), IntVal(thread_id)>> \in DictItems(memories[i].metadata)}

\* C20 (QuerySpec): get_context_for_thread(t) renders, after its header, the
\* min(5, k) newest of the k items carrying thread id t, oldest first, and
\* nothing else; with k = 0 it returns the no-activity message for t; the
\* call changes neither the log nor its file.
C20_ThreadContext ==
    /\ [](query.op = "get_context_for_thread" =>
             LET t == query.thread_id
                 S == ThreadPositions(t)
                 n == Min(5, Cardinality(S))
             IN  IF S = {}
                 THEN result = <<NoThreadActivity(t)>>
                 ELSE /\ Len(result) = n + 1
                      /\ result[1] = ContextHeader(t)
                      /\ \A j \in 1..n :
                             result[j + 1] = ContextLine(memories[NthNewest(S, n + 1 - j)]))
    /\ [][GetContext => (memories' = memories /\ disk' = disk)]_vars

\* Six items of thread 1 and one of thread 2: the context has five lines.
C20_Witness ==
    /\ query.op = "get_context_for_thread"
    /\ query.thread_id = 1
    /\ Cardinality(ThreadPositions(1)) >= 6
    /\ ThreadPositions(2) # {}
    /\ Len(result) = 6

\* The ClientSessions created and not closed: the one self._ws_session
\* refers to, if open, and those it no longer refers to
UnclosedSessions == (IF ws_session = "open" THEN 1 ELSE 0) + leaked

\* C21 (Spec): at most one client session is unclosed at any time, and once
\* terminate has returned none is.
C21_OneSession ==
    /\ UnclosedSessions <= 1
    /\ termPc = "done" => UnclosedSessions = 0

\* An add_memory or a clear whose write ends with the given outcome
WriteStep(outcome) ==
    \/ \E inp \in ItemInputs, us \in Usecs : AddMemoryWith(inp, us, outcome)
    \/ ClearWith(outcome)

\* C22 (MemSpec): an add_memory or a clear whose write fails, on opening the
\* file or part-way, leaves the file reloading to what it reloaded to before
\* the call; a file that reloaded to a non-empty log is never left
\* unreadable.
C22_FailedWriteKeepsFile ==
    [][\A outcome \in SaveOutcomes \ {"ok"} :
           WriteStep(outcome) =>
               /\ Loaded(disk') = Loaded(disk)
               /\ (Loaded(disk) # <<>>) => (disk'.exists /\ disk'.valid)]_vars

====
